---- MODULE Spec2Model ----
(***************************************************************************)
(* Ledger state machine of my-blockchain: the proof-of-work ledger         *)
(* (Blockchain with minePendingTransactions) and the proof-of-stake ledger *)
(* (Blockchain with forgePendingTransactions, validators and auto-forging).*)
(* One behaviour follows one ledger object; `consensus` records which of   *)
(* the two Blockchain classes was constructed.                             *)
(***************************************************************************)
EXTENDS Integers, Sequences, FiniteSets, TLC

VARIABLES
    consensus,            \* "pow" | "pos": which Blockchain class this ledger is
    chain,                \* Blockchain.chain
    pendingTransactions,  \* Blockchain.pendingTransactions
    balances,             \* Blockchain.balances (Map, insertion ordered)
    validators,           \* Blockchain.validators (Map, insertion ordered; PoS)
    autoForging,          \* Blockchain.autoForging (PoS)
    forgingInterval,      \* Blockchain.forgingInterval: timer handle or NoTimer
    timers,               \* interval timers alive in the event loop
    now,                  \* Date.now()
    lastBlock,            \* the Block object most recently constructed
    callbackView,         \* the ledger as onBlockForged saw it during the last call (PoS)
    file,                 \* blockchain.json of the server's data directory
    result                \* outcome of the last call, as seen by the caller

vars == <<consensus, chain, pendingTransactions, balances, validators,
          autoForging, forgingInterval, timers, now, lastBlock, callbackView,
          file, result>>

-----------------------------------------------------------------------------
(* Bounds of the model *)

MaxTx == 5
MaxTime == 1
MiningPeriod == 4

(* Program constants *)

miningReward == 100
difficulty == 2
MinimumStake == 1000
GenesisTimestamp == 1704067200   \* Date.parse('2024-01-01'), the clock counted in seconds
NoTimer == 0
NoFile == [exists |-> FALSE]     \* fs.existsSync(BLOCKCHAIN_FILE) is false
NoView == [called |-> FALSE]     \* onBlockForged was not called
StartTime == GenesisTimestamp + 1
MaxNow == StartTime + MaxTime

NULL == "null"
NullSignature == <<>>
GenesisPreviousHash == <<"0">>

(* Inputs the callers draw from *)

Senders == {"alice"}
MintRecipients == {"alice"}
Producers == {"bob"}
QueryAddresses == {"alice", "burn"}
MintAmounts == {1000, 0}
ValidatorAddresses == {"bob"}
StakeAmounts == {500, 1000}

(* Transfers the callers ask for: recipient, amount, and whether the       *)
(* transaction was signed by the sending wallet (Wallet.sendMoney) or      *)
(* handed to createTransaction unsigned.                                   *)
PoW_TransferRequests ==
    { <<"carol", 400, TRUE>>, <<"carol", 800, TRUE>>,
      <<"carol", 400, FALSE>>, <<"carol", 0, TRUE>> }

PoS_TransferRequests == PoW_TransferRequests \cup { <<"burn", 400, TRUE>> }

-----------------------------------------------------------------------------
(* JavaScript Map: a sequence of <<key, value>> entries in insertion order *)

MapHas(m, k) == \E i \in 1..Len(m) : m[i][1] = k

MapGet(m, k) == m[CHOOSE i \in 1..Len(m) : m[i][1] = k][2]

MapSet(m, k, v) ==
    IF MapHas(m, k)
    THEN [i \in 1..Len(m) |-> IF m[i][1] = k THEN <<k, v>> ELSE m[i]]
    ELSE Append(m, <<k, v>>)

MapDelete(m, k) == SelectSeq(m, LAMBDA e : e[1] # k)

RECURSIVE MapSum(_)
MapSum(m) == IF m = <<>> THEN 0 ELSE Head(m)[2] + MapSum(Tail(m))

(* JavaScript truthiness of a string | null *)
Truthy(s) == s # NULL /\ s # ""

-----------------------------------------------------------------------------
(* CryptoUtils.hash: SHA-256 of the JSON text, an injective digest of the  *)
(* hashed data.                                                            *)
Hash(data) == <<"sha256", data>>

(* CryptoUtils.signTransaction *)
Sign(privateKey, data) == <<"sig", privateKey, data>>

PrivateKey(address) == <<"sk", address>>

-----------------------------------------------------------------------------
(* Transaction *)

TxData(tx) == <<tx.id, tx.from, tx.to, tx.amount, tx.type, tx.timestamp>>

TxCalculateHash(tx) == Hash(TxData(tx))

NewTransaction(id, from, to, amount, type, ts) ==
    LET t == [id |-> id, from |-> from, to |-> to, amount |-> amount,
              type |-> type, timestamp |-> ts, signature |-> NullSignature]
    IN  [id |-> id, from |-> from, to |-> to, amount |-> amount,
         type |-> type, timestamp |-> ts, signature |-> NullSignature,
         hash |-> TxCalculateHash(t)]

signTransaction(tx, privateKey) ==
    LET s == [tx EXCEPT !.signature = Sign(privateKey, TxData(tx))]
    IN  [s EXCEPT !.hash = TxCalculateHash(s)]

isValid(tx) ==
    IF tx.from = NULL \/ tx.type = "reward" \/ tx.type = "mint" \/ tx.type = "genesis"
    THEN TRUE
    ELSE IF tx.type = "transfer"
         THEN IF ~Truthy(tx.from) \/ ~Truthy(tx.to) THEN FALSE
              ELSE IF tx.amount <= 0 THEN FALSE
              ELSE TRUE
         ELSE TRUE

createMintTransaction(id, to, amount, ts) ==
    NewTransaction(id, NULL, to, amount, "mint", ts)

createRewardTransaction(id, to, amount, ts) ==
    NewTransaction(id, NULL, to, amount, "reward", ts)

(* Transaction of the PoS ledger *)
getTotalCost(tx) == tx.amount

-----------------------------------------------------------------------------
(* Fold of a transaction sequence onto one address *)

RECURSIVE FoldTxs(_, _)
FoldTxs(txs, address) ==
    IF txs = <<>> THEN 0
    ELSE LET t == Head(txs)
         IN  (IF t.from = address THEN 0 - t.amount ELSE 0)
           + (IF t.to = address THEN t.amount ELSE 0)
           + FoldTxs(Tail(txs), address)

RECURSIVE getAllTransactions_newestFirst(_)
getAllTransactions_newestFirst(ch) ==
    IF ch = <<>> THEN <<>>
    ELSE getAllTransactions_newestFirst(Tail(ch)) \o Head(ch).transactions

RECURSIVE getAllTransactions(_)
getAllTransactions(ch) ==
    IF ch = <<>> THEN <<>>
    ELSE Head(ch).transactions \o getAllTransactions(Tail(ch))

TxIds(txs) == {txs[i].id : i \in 1..Len(txs)}

(* uuidv4(): an identifier no transaction of the ledger carries *)
FreshId(ch, pend) ==
    LET used == TxIds(getAllTransactions(ch)) \cup TxIds(pend)
    IN  CHOOSE n \in 0..Cardinality(used) : n \notin used

-----------------------------------------------------------------------------
(* Block *)

BlockData(b) ==
    IF "index" \in DOMAIN b
    THEN [index |-> b.index, timestamp |-> b.timestamp,
          transactions |-> b.transactions, previousHash |-> b.previousHash,
          validator |-> b.validator, nonce |-> b.nonce]
    ELSE [timestamp |-> b.timestamp, transactions |-> b.transactions,
          previousHash |-> b.previousHash, nonce |-> b.nonce]

calculateHash(b) == Hash(BlockData(b))

(* PoW Block constructor *)
NewBlock(ts, txs, previousHash) ==
    LET b == [timestamp |-> ts, transactions |-> txs,
              previousHash |-> previousHash, nonce |-> 0]
    IN  [timestamp |-> ts, transactions |-> txs, previousHash |-> previousHash,
         nonce |-> 0, hash |-> calculateHash(b)]

(* PoS Block constructor *)
NewPosBlock(index, ts, txs, previousHash, validator) ==
    LET b == [index |-> index, timestamp |-> ts, transactions |-> txs,
              previousHash |-> previousHash, validator |-> validator, nonce |-> 0]
    IN  [index |-> index, timestamp |-> ts, transactions |-> txs,
         previousHash |-> previousHash, validator |-> validator,
         nonce |-> 0, hash |-> calculateHash(b)]

forgeBlock_restamped(b) ==
    [b EXCEPT !.hash = calculateHash(b), !.timestamp = b.timestamp + 1]

forgeBlock(b) == [b EXCEPT !.hash = calculateHash(b)]

RECURSIVE SumIds(_)
SumIds(txs) == IF txs = <<>> THEN 0 ELSE Head(txs).id + SumIds(Tail(txs))

(* Numeric value of the first d hexadecimal characters of a block hash: a  *)
(* digest of the hashed fields that returns to zero every MiningPeriod      *)
(* nonces.                                                                  *)
HexPrefix(h, d) ==
    ((h[2].timestamp + SumIds(h[2].transactions) + h[2].nonce) % MiningPeriod)
        * ((16 ^ d) \div MiningPeriod)

mineBlock_nonceOnly(b, d) == [b EXCEPT !.nonce = b.nonce + 1]

RECURSIVE mineBlock(_, _)
mineBlock(b, d) ==
    IF HexPrefix(b.hash, d) = 0 THEN b
    ELSE LET n == [b EXCEPT !.nonce = b.nonce + 1]
         IN  mineBlock([n EXCEPT !.hash = calculateHash(n)], d)

getLatestBlock_first(ch) == ch[1]

getLatestBlock(ch) == ch[Len(ch)]

-----------------------------------------------------------------------------
(* PoW ledger *)

PoW_createGenesisBlock(ts) ==
    NewBlock(GenesisTimestamp,
             <<NewTransaction(0, NULL, "genesis", 0, "genesis", ts)>>,
             GenesisPreviousHash)

PoW_getBalance(bal, ch, pend, address) ==
    IF MapHas(bal, address)
    THEN [value |-> MapGet(bal, address), balances |-> bal]
    ELSE LET balance == FoldTxs(getAllTransactions(ch), address)
                        + FoldTxs(pend, address)
         IN  [value |-> balance, balances |-> MapSet(bal, address, balance)]

RECURSIVE PoW_updateBalances(_, _, _, _)
PoW_updateBalances(bal, ch, pend, txs) ==
    IF txs = <<>> THEN bal
    ELSE LET t  == Head(txs)
             g1 == PoW_getBalance(bal, ch, pend, t.from)
             b1 == IF Truthy(t.from)
                   THEN MapSet(g1.balances, t.from, g1.value - t.amount)
                   ELSE bal
             g2 == PoW_getBalance(b1, ch, pend, t.to)
             b2 == IF Truthy(t.to)
                   THEN MapSet(g2.balances, t.to, g2.value + t.amount)
                   ELSE b1
         IN  PoW_updateBalances(b2, ch, pend, Tail(txs))

InsufficientBalance_swapped(balance, cost) == cost < balance

(* if (balance < transaction.amount) throw *)
InsufficientBalance(balance, cost) == balance < cost

PosFieldsUnchanged ==
    UNCHANGED <<validators, autoForging, forgingInterval, timers, callbackView>>

PoW_createTransactionBody(tx) ==
    IF ~isValid(tx)
    THEN /\ result' = "invalid"
         /\ UNCHANGED <<chain, pendingTransactions, balances>>
    ELSE IF Truthy(tx.from) /\ tx.type = "transfer"
    THEN LET g == PoW_getBalance(balances, chain, pendingTransactions, tx.from)
         IN  IF InsufficientBalance(g.value, tx.amount)
             THEN /\ result' = "insufficient"
                  /\ balances' = g.balances
                  /\ UNCHANGED <<chain, pendingTransactions>>
             ELSE /\ result' = "ok"
                  /\ balances' = g.balances
                  /\ pendingTransactions' = Append(pendingTransactions, tx)
                  /\ UNCHANGED chain
    ELSE /\ result' = "ok"
         /\ pendingTransactions' = Append(pendingTransactions, tx)
         /\ UNCHANGED <<chain, balances>>

CanCreate == Cardinality(TxIds(getAllTransactions(chain)) \cup TxIds(pendingTransactions)) < MaxTx

(* A transfer as the callers build it: new TransactionClass(...), signed by *)
(* the wallet or left unsigned.                                            *)
CallerTransfer(from, to, amount, signed) ==
    LET t == NewTransaction(FreshId(chain, pendingTransactions), from, to,
                            amount, "transfer", now)
    IN  IF signed THEN signTransaction(t, PrivateKey(from)) ELSE t

PoW_createTransaction ==
    /\ consensus = "pow"
    /\ CanCreate
    /\ \E from \in Senders, req \in PoW_TransferRequests :
          PoW_createTransactionBody(CallerTransfer(from, req[1], req[2], req[3]))
    /\ UNCHANGED <<consensus, now, lastBlock, file>>
    /\ PosFieldsUnchanged

PoW_mintTokens ==
    /\ consensus = "pow"
    /\ CanCreate
    /\ \E to \in MintRecipients, amount \in MintAmounts :
          PoW_createTransactionBody(
              createMintTransaction(FreshId(chain, pendingTransactions),
                                    to, amount, now))
    /\ UNCHANGED <<consensus, now, lastBlock, file>>
    /\ PosFieldsUnchanged

PoW_getBalanceCall ==
    /\ consensus = "pow"
    /\ \E address \in QueryAddresses :
          balances' = PoW_getBalance(balances, chain, pendingTransactions,
                                     address).balances
    /\ result' = "ok"
    /\ UNCHANGED <<consensus, chain, pendingTransactions, now, lastBlock, file>>
    /\ PosFieldsUnchanged

PoW_minedBlock_unlinked(miningRewardAddress, t) ==
    LET rewardTransaction ==
            createRewardTransaction(FreshId(chain, pendingTransactions),
                                    miningRewardAddress, miningReward, t)
        pend == Append(pendingTransactions, rewardTransaction)
    IN  [pend  |-> pend,
         block |-> mineBlock(NewBlock(t, pend, GenesisPreviousHash), difficulty)]

(* minePendingTransactions up to chain.push: the reward is queued, the     *)
(* block is built over the queue and mined.                                *)
PoW_minedBlock(miningRewardAddress, t) ==
    LET rewardTransaction ==
            createRewardTransaction(FreshId(chain, pendingTransactions),
                                    miningRewardAddress, miningReward, t)
        pend == Append(pendingTransactions, rewardTransaction)
    IN  [pend  |-> pend,
         block |-> mineBlock(NewBlock(t, pend, getLatestBlock(chain).hash),
                             difficulty)]

PoW_mine_keepQueue(miningRewardAddress, t) ==
    LET m  == PoW_minedBlock(miningRewardAddress, t)
        ch == Append(chain, m.block)
    IN  [chain |-> ch,
         balances |-> PoW_updateBalances(balances, ch, m.pend, m.block.transactions),
         pendingTransactions |-> m.pend]

(* State of the ledger when minePendingTransactions returns *)
PoW_mine(miningRewardAddress, t) ==
    LET m  == PoW_minedBlock(miningRewardAddress, t)
        ch == Append(chain, m.block)
    IN  [chain |-> ch,
         balances |-> PoW_updateBalances(balances, ch, m.pend, m.block.transactions),
         pendingTransactions |-> <<>>]

PoW_minePendingTransactions_replaceTip ==
    /\ consensus = "pow"
    /\ CanCreate
    /\ \E miningRewardAddress \in Producers, t \in now..MaxNow :
          LET after == PoW_mine(miningRewardAddress, t)
          IN  /\ chain' = [chain EXCEPT ![Len(chain)] = getLatestBlock(after.chain)]
              /\ balances' = after.balances
              /\ pendingTransactions' = after.pendingTransactions
              /\ lastBlock' = getLatestBlock(after.chain)
              /\ now' = t
    /\ result' = "ok"
    /\ UNCHANGED <<consensus, file>>
    /\ PosFieldsUnchanged

PoW_minePendingTransactions ==
    /\ consensus = "pow"
    /\ CanCreate
    /\ \E miningRewardAddress \in Producers, t \in now..MaxNow :
          LET after == PoW_mine(miningRewardAddress, t)
          IN  /\ chain' = after.chain
              /\ balances' = after.balances
              /\ pendingTransactions' = after.pendingTransactions
              /\ lastBlock' = getLatestBlock(after.chain)
              /\ now' = t
    /\ result' = "ok"
    /\ UNCHANGED <<consensus, file>>
    /\ PosFieldsUnchanged

InitPoW ==
    /\ consensus = "pow"
    /\ now = StartTime
    /\ chain = <<PoW_createGenesisBlock(StartTime)>>
    /\ pendingTransactions = <<>>
    /\ balances = <<>>
    /\ validators = <<>>
    /\ autoForging = FALSE
    /\ forgingInterval = NoTimer
    /\ timers = {}
    /\ lastBlock = chain[1]
    /\ callbackView = NoView
    /\ file = NoFile
    /\ result = "ok"

NextPoW ==
    \/ PoW_createTransaction
    \/ PoW_mintTokens
    \/ PoW_getBalanceCall
    \/ PoW_minePendingTransactions

SpecPoW == InitPoW /\ [][NextPoW]_vars

-----------------------------------------------------------------------------
(* PoS ledger *)

PoS_createGenesisBlock(ts) ==
    NewPosBlock(0, GenesisTimestamp,
                <<NewTransaction(0, "system", "genesis", 0, "mint", ts)>>,
                GenesisPreviousHash, NULL)

PoS_getBalance(bal, ch, address) ==
    IF MapHas(bal, address)
    THEN [value |-> MapGet(bal, address), balances |-> bal]
    ELSE LET balance == FoldTxs(getAllTransactions(ch), address)
         IN  [value |-> balance, balances |-> MapSet(bal, address, balance)]

(* this.balances.get(k) || 0 *)
GetOrZero(bal, k) == IF MapHas(bal, k) THEN MapGet(bal, k) ELSE 0

RECURSIVE PoS_updateBalances(_, _)
PoS_updateBalances(bal, txs) ==
    IF txs = <<>> THEN bal
    ELSE LET t  == Head(txs)
             b1 == IF Truthy(t.from) /\ t.from # "system"
                   THEN MapSet(bal, t.from, GetOrZero(bal, t.from) - t.amount)
                   ELSE bal
             b2 == IF Truthy(t.to) /\ t.to # "burn"
                   THEN MapSet(b1, t.to, GetOrZero(b1, t.to) + t.amount)
                   ELSE b1
         IN  PoS_updateBalances(b2, Tail(txs))

addValidator_anyStake(vals, address, stake) == MapSet(vals, address, stake)

addValidator(vals, address, stake) ==
    IF stake >= MinimumStake THEN MapSet(vals, address, stake) ELSE vals

removeValidator(vals, address) == MapDelete(vals, address)

updateValidatorStake_keepBelowMinimum(vals, address, newStake) ==
    IF MapHas(vals, address) THEN MapSet(vals, address, newStake) ELSE vals

updateValidatorStake(vals, address, newStake) ==
    IF MapHas(vals, address)
    THEN IF newStake >= MinimumStake
         THEN MapSet(vals, address, newStake)
         ELSE removeValidator(vals, address)
    ELSE vals

(* selectValidator, first step: with no validator registered, every entry  *)
(* of the balance index holding the minimum stake is registered.           *)
RECURSIVE PromoteAll(_, _)
PromoteAll(vals, entries) ==
    IF entries = <<>> THEN vals
    ELSE LET e == Head(entries)
         IN  PromoteAll(IF e[2] >= MinimumStake
                        THEN addValidator(vals, e[1], e[2]) ELSE vals,
                        Tail(entries))

AutoPromote_always(vals, bal) == PromoteAll(vals, bal)

AutoPromote(vals, bal) == IF Len(vals) = 0 THEN PromoteAll(vals, bal) ELSE vals

(* selectValidator, the stake-weighted walk for the draw random *)
RECURSIVE Walk(_, _, _)
Walk(vals, entries, random) ==
    IF entries = <<>>
    THEN (IF Len(vals) > 0 THEN vals[1][1] ELSE NULL)
    ELSE LET r == random - Head(entries)[2]
         IN  IF r <= 0 THEN Head(entries)[1] ELSE Walk(vals, Tail(entries), r)

RECURSIVE Cumulative(_, _)
Cumulative(entries, acc) ==
    IF entries = <<>> THEN {}
    ELSE {acc + Head(entries)[2]} \cup Cumulative(Tail(entries), acc + Head(entries)[2])

(* Math.random() * totalStake: the draws that tell the validators apart *)
Draws(vals) ==
    LET cum == Cumulative(vals, 0)
    IN  {r \in {0} \cup cum \cup {c - 1 : c \in cum} : 0 <= r /\ r < MapSum(vals)}

TimerUnchanged == UNCHANGED <<autoForging, forgingInterval, timers>>

PoS_createTransactionBody(tx) ==
    IF ~isValid(tx)
    THEN /\ result' = "invalid"
         /\ UNCHANGED <<chain, pendingTransactions, balances>>
    ELSE IF Truthy(tx.from) /\ tx.from # "system" /\ tx.type = "transfer"
    THEN LET g == PoS_getBalance(balances, chain, tx.from)
         IN  IF InsufficientBalance(g.value, getTotalCost(tx))
             THEN /\ result' = "insufficient"
                  /\ balances' = g.balances
                  /\ UNCHANGED <<chain, pendingTransactions>>
             ELSE /\ result' = "ok"
                  /\ balances' = g.balances
                  /\ pendingTransactions' = Append(pendingTransactions, tx)
                  /\ UNCHANGED chain
    ELSE /\ result' = "ok"
         /\ pendingTransactions' = Append(pendingTransactions, tx)
         /\ UNCHANGED <<chain, balances>>

PoS_createTransaction ==
    /\ consensus = "pos"
    /\ CanCreate
    /\ \E from \in Senders, req \in PoS_TransferRequests :
          PoS_createTransactionBody(CallerTransfer(from, req[1], req[2], req[3]))
    /\ UNCHANGED <<consensus, now, validators, lastBlock, file>>
    /\ callbackView' = NoView
    /\ TimerUnchanged

PoS_mintTokens ==
    /\ consensus = "pos"
    /\ CanCreate
    /\ \E to \in MintRecipients, amount \in MintAmounts :
          PoS_createTransactionBody(
              createMintTransaction(FreshId(chain, pendingTransactions),
                                    to, amount, now))
    /\ UNCHANGED <<consensus, now, validators, lastBlock, file>>
    /\ callbackView' = NoView
    /\ TimerUnchanged

PoS_getBalanceCall ==
    /\ consensus = "pos"
    /\ \E address \in QueryAddresses :
          balances' = PoS_getBalance(balances, chain, address).balances
    /\ result' = "ok"
    /\ UNCHANGED <<consensus, chain, pendingTransactions, now, validators, lastBlock, file>>
    /\ callbackView' = NoView
    /\ TimerUnchanged

PoS_addValidator ==
    /\ consensus = "pos"
    /\ \E address \in ValidatorAddresses, stake \in StakeAmounts :
          validators' = addValidator(validators, address, stake)
    /\ result' = "ok"
    /\ UNCHANGED <<consensus, chain, pendingTransactions, balances, now, lastBlock, file>>
    /\ callbackView' = NoView
    /\ TimerUnchanged

PoS_removeValidator ==
    /\ consensus = "pos"
    /\ \E address \in ValidatorAddresses :
          validators' = removeValidator(validators, address)
    /\ result' = "ok"
    /\ UNCHANGED <<consensus, chain, pendingTransactions, balances, now, lastBlock, file>>
    /\ callbackView' = NoView
    /\ TimerUnchanged

PoS_updateValidatorStake ==
    /\ consensus = "pos"
    /\ \E address \in ValidatorAddresses, newStake \in StakeAmounts :
          validators' = updateValidatorStake(validators, address, newStake)
    /\ result' = "ok"
    /\ UNCHANGED <<consensus, chain, pendingTransactions, balances, now, lastBlock, file>>
    /\ callbackView' = NoView
    /\ TimerUnchanged

(* selectValidator after the auto-promotion step, for the draw random *)
selectValidator(vals, random) ==
    IF Len(vals) = 0 THEN NULL ELSE Walk(vals, vals, random)

PoS_noProducer_rewardQueued(promoted) ==
    /\ result' = "null"
    /\ validators' = promoted
    /\ pendingTransactions' =
           Append(pendingTransactions,
                  createMintTransaction(FreshId(chain, pendingTransactions),
                                        NULL, miningReward, now))
    /\ callbackView' = NoView
    /\ UNCHANGED <<chain, balances, now, lastBlock>>

(* forgePendingTransactions: if (!selectedValidator) return null *)
PoS_noProducer(promoted) ==
    /\ result' = "null"
    /\ validators' = promoted
    /\ callbackView' = NoView
    /\ UNCHANGED <<chain, pendingTransactions, balances, now, lastBlock>>

PoS_forged_keepQueue(promoted, selectedValidator, t) ==
    LET rewardTransaction ==
            createMintTransaction(FreshId(chain, pendingTransactions),
                                  selectedValidator, miningReward, t)
        pend  == Append(pendingTransactions, rewardTransaction)
        block == forgeBlock(NewPosBlock(Len(chain), t, pend,
                                        getLatestBlock(chain).hash,
                                        selectedValidator))
        ch    == Append(chain, block)
        bal   == PoS_updateBalances(balances, block.transactions)
        g     == PoS_getBalance(bal, ch, selectedValidator)
    IN  [chain |-> ch,
         balances |-> g.balances,
         validators |-> updateValidatorStake(promoted, selectedValidator, g.value),
         pendingTransactions |-> pend]

(* State of the ledger when forgePendingTransactions returns the block *)
PoS_forged(promoted, selectedValidator, t) ==
    LET rewardTransaction ==
            createMintTransaction(FreshId(chain, pendingTransactions),
                                  selectedValidator, miningReward, t)
        pend  == Append(pendingTransactions, rewardTransaction)
        block == forgeBlock(NewPosBlock(Len(chain), t, pend,
                                        getLatestBlock(chain).hash,
                                        selectedValidator))
        ch    == Append(chain, block)
        bal   == PoS_updateBalances(balances, block.transactions)
        g     == PoS_getBalance(bal, ch, selectedValidator)
    IN  [chain |-> ch,
         balances |-> g.balances,
         validators |-> updateValidatorStake(promoted, selectedValidator, g.value),
         pendingTransactions |-> <<>>]

onBlockForged_beforeClear(promoted, selectedValidator, t) ==
    [called |-> TRUE, ledger |-> PoS_forged_keepQueue(promoted, selectedValidator, t)]

(* this.onBlockForged(block, selectedValidator): the callback runs after   *)
(* every write of forgePendingTransactions and sees the ledger they left   *)
onBlockForged(promoted, selectedValidator, t) ==
    [called |-> TRUE, ledger |-> PoS_forged(promoted, selectedValidator, t)]

(* forgePendingTransactions(validatorAddress) called at time t *)
PoS_forge(validatorAddress, t) ==
    LET promoted == IF Truthy(validatorAddress) THEN validators
                    ELSE AutoPromote(validators, balances)
    IN  IF ~Truthy(validatorAddress) /\ ~Truthy(selectValidator(promoted, 0))
        THEN PoS_noProducer(promoted)
        ELSE /\ CanCreate
             /\ \E random \in (IF Truthy(validatorAddress) THEN {0}
                               ELSE Draws(promoted)) :
                  LET selectedValidator ==
                          IF Truthy(validatorAddress) THEN validatorAddress
                          ELSE selectValidator(promoted, random)
                      after == PoS_forged(promoted, selectedValidator, t)
                  IN  /\ chain' = after.chain
                      /\ balances' = after.balances
                      /\ validators' = after.validators
                      /\ pendingTransactions' = after.pendingTransactions
                      /\ lastBlock' = getLatestBlock(after.chain)
                      /\ callbackView' = onBlockForged(promoted, selectedValidator, t)
                      /\ now' = t
                      /\ result' = "ok"

PoS_forgePendingTransactions ==
    /\ consensus = "pos"
    /\ \E validatorAddress \in Producers \cup {NULL}, t \in now..MaxNow :
          PoS_forge(validatorAddress, t)
    /\ UNCHANGED <<consensus, file>>
    /\ TimerUnchanged

startAutoForging_flagOnly ==
    /\ consensus = "pos"
    /\ autoForging' = TRUE
    /\ result' = "ok"
    /\ callbackView' = NoView
    /\ UNCHANGED <<consensus, chain, pendingTransactions, balances, validators, now,
                   lastBlock, file, forgingInterval, timers>>

startAutoForging ==
    /\ consensus = "pos"
    /\ IF autoForging
       THEN UNCHANGED <<autoForging, forgingInterval, timers>>
       ELSE LET handle == CHOOSE h \in 1..(Cardinality(timers) + 1) : h \notin timers
            IN  /\ autoForging' = TRUE
                /\ forgingInterval' = handle
                /\ timers' = timers \cup {handle}
    /\ result' = "ok"
    /\ UNCHANGED <<consensus, chain, pendingTransactions, balances, validators, now,
                   lastBlock, file>>
    /\ callbackView' = NoView

StopTimers_keepTimer(running, interval, alive) ==
    [autoForging |-> FALSE, forgingInterval |-> NoTimer, timers |-> alive]

StopTimers(running, interval, alive) ==
    IF ~running THEN [autoForging |-> running, forgingInterval |-> interval, timers |-> alive]
    ELSE [autoForging |-> FALSE,
          forgingInterval |-> NoTimer,
          timers |-> IF interval # NoTimer THEN alive \ {interval} ELSE alive]

stopAutoForging ==
    /\ consensus = "pos"
    /\ LET s == StopTimers(autoForging, forgingInterval, timers)
       IN  /\ autoForging' = s.autoForging
           /\ forgingInterval' = s.forgingInterval
           /\ timers' = s.timers
    /\ result' = "ok"
    /\ UNCHANGED <<consensus, chain, pendingTransactions, balances, validators, now,
                   lastBlock, file>>
    /\ callbackView' = NoView

ForgingTick_unguarded ==
    /\ consensus = "pos"
    /\ timers # {}
    /\ \E t \in now..MaxNow : PoS_forge(NULL, t)
    /\ UNCHANGED <<consensus, file>>
    /\ TimerUnchanged

(* One firing of the setInterval callback of startAutoForging *)
ForgingTick ==
    /\ consensus = "pos"
    /\ timers # {}
    /\ IF Len(pendingTransactions) > 0
       THEN \E t \in now..MaxNow : PoS_forge(NULL, t)
       ELSE UNCHANGED <<chain, pendingTransactions, balances, validators, now,
                        lastBlock, callbackView, result>>
    /\ UNCHANGED <<consensus, file>>
    /\ TimerUnchanged

reset ==
    /\ consensus = "pos"
    /\ LET s == StopTimers(autoForging, forgingInterval, timers)
       IN  /\ autoForging' = s.autoForging
           /\ forgingInterval' = s.forgingInterval
           /\ timers' = s.timers
    /\ chain' = <<PoS_createGenesisBlock(now)>>
    /\ pendingTransactions' = <<>>
    /\ balances' = <<>>
    /\ validators' = <<>>
    /\ lastBlock' = chain'[1]
    /\ callbackView' = NoView
    /\ result' = "ok"
    /\ UNCHANGED <<consensus, now, file>>

InitPoS ==
    /\ consensus = "pos"
    /\ now = StartTime
    /\ chain = <<PoS_createGenesisBlock(StartTime)>>
    /\ pendingTransactions = <<>>
    /\ balances = <<>>
    /\ validators = <<>>
    /\ autoForging = FALSE
    /\ forgingInterval = NoTimer
    /\ timers = {}
    /\ lastBlock = chain[1]
    /\ callbackView = NoView
    /\ file = NoFile
    /\ result = "ok"

NextPoS ==
    \/ PoS_createTransaction
    \/ PoS_mintTokens
    \/ PoS_getBalanceCall
    \/ PoS_addValidator
    \/ PoS_removeValidator
    \/ PoS_updateValidatorStake
    \/ PoS_forgePendingTransactions
    \/ startAutoForging
    \/ stopAutoForging
    \/ ForgingTick
    \/ reset

SpecPoS == InitPoS /\ [][NextPoS]_vars

Init == InitPoW \/ InitPoS

Next == NextPoW \/ NextPoS

Spec == Init /\ [][Next]_vars

-----------------------------------------------------------------------------
(* Block objects on their own: a caller constructs a Block and mines it    *)

Difficulties == 0..difficulty

(* Transaction lists handed to the Block constructor *)
BlockInputs ==
    LET tx(i) == createRewardTransaction(i, "bob", miningReward, StartTime)
        ids   == 0..(MaxTx - 1)
    IN  {<<>>} \cup {<<tx(i)>> : i \in ids}
               \cup {<<tx(p[1]), tx(p[2])>> :
                        p \in {q \in ids \X ids : q[1] # q[2]}}

ConstructedBlocks ==
    LET prev == {GenesisPreviousHash, PoW_createGenesisBlock(StartTime).hash}
    IN  {NewBlock(t, txs, h) :
            t \in StartTime..MaxNow, txs \in BlockInputs, h \in prev}
        \cup
        {NewPosBlock(1, t, txs, PoS_createGenesisBlock(StartTime).hash, "bob") :
            t \in StartTime..MaxNow, txs \in BlockInputs}

LedgerUnchanged ==
    UNCHANGED <<consensus, chain, pendingTransactions, balances, validators,
                autoForging, forgingInterval, timers, now, callbackView, file>>

MineStep_incrementFirst(d) ==
    /\ lastBlock' =
           (LET n == [lastBlock EXCEPT !.nonce = lastBlock.nonce + 1]
            IN  mineBlock([n EXCEPT !.hash = calculateHash(n)], d))
    /\ result' = "ok"
    /\ LedgerUnchanged

MineStep(d) ==
    /\ lastBlock' = mineBlock(lastBlock, d)
    /\ result' = "ok"
    /\ LedgerUnchanged

(* block.mineBlock(difficulty) *)
Block_mineBlock == \E d \in Difficulties : MineStep(d)

InitMine ==
    /\ consensus = "pow"
    /\ now = StartTime
    /\ chain = <<PoW_createGenesisBlock(StartTime)>>
    /\ pendingTransactions = <<>>
    /\ balances = <<>>
    /\ validators = <<>>
    /\ autoForging = FALSE
    /\ forgingInterval = NoTimer
    /\ timers = {}
    /\ lastBlock \in ConstructedBlocks
    /\ callbackView = NoView
    /\ file = NoFile
    /\ result = "ok"

NextMine == Block_mineBlock

SpecMine == InitMine /\ [][NextMine]_vars

-----------------------------------------------------------------------------
(* Chain validation. The chain handed to isChainValid may hold blocks that *)
(* were reloaded or edited outside the ledger: class instances, plain data *)
(* returned by JSON.parse (no methods), or holes.                          *)

Undefined == [undefined |-> TRUE]
EmptyString == <<>>

(* JSON.parse(JSON.stringify(o)): the same fields, no prototype methods *)
JsonData(o) == [k \in DOMAIN o \cup {"json"} |-> IF k = "json" THEN TRUE ELSE o[k]]

HasMethods(o) == "json" \notin DOMAIN o

(* Block.hasValidTransactions: "true", "false", or "throws" when an element *)
(* has no isValid method                                                    *)
RECURSIVE TxsVerdict(_)
TxsVerdict(txs) ==
    IF txs = <<>> THEN "true"
    ELSE IF ~HasMethods(Head(txs)) THEN "throws"
    ELSE IF ~isValid(Head(txs)) THEN "false"
    ELSE TxsVerdict(Tail(txs))

hasValidTransactions(b) == TxsVerdict(b.transactions)

(* Block.isValidStructure: typeof of a missing field is 'undefined' *)
isValidStructure(b) ==
    {"index", "timestamp", "previousHash", "hash", "nonce", "transactions"}
        \subseteq DOMAIN b

(* PoW Blockchain.isChainValid, from the block at position i *)
RECURSIVE PoW_isChainValidFrom(_, _)
PoW_isChainValidFrom(ch, i) ==
    IF i > Len(ch) THEN "true"
    ELSE LET currentBlock  == ch[i]
             previousBlock == ch[i - 1]
         IN  IF currentBlock = Undefined \/ previousBlock = Undefined THEN "false"
             ELSE IF ~HasMethods(currentBlock) THEN "throws"
             ELSE IF hasValidTransactions(currentBlock) # "true"
                  THEN hasValidTransactions(currentBlock)
             ELSE IF currentBlock.previousHash # previousBlock.hash THEN "false"
             ELSE IF currentBlock.hash = EmptyString THEN "false"
             ELSE PoW_isChainValidFrom(ch, i + 1)

PoW_isChainValid(ch) == PoW_isChainValidFrom(ch, 2)

(* PoS Blockchain.isChainValid, the body of its try block *)
RECURSIVE PoS_isChainValidFrom(_, _)
PoS_isChainValidFrom(ch, i) ==
    IF i > Len(ch) THEN "true"
    ELSE LET currentBlock  == ch[i]
             previousBlock == ch[i - 1]
         IN  IF currentBlock = Undefined THEN "throws"
             ELSE IF ~HasMethods(currentBlock) THEN "throws"
             ELSE IF ~isValidStructure(currentBlock) THEN "false"
             ELSE IF hasValidTransactions(currentBlock) # "true"
                  THEN hasValidTransactions(currentBlock)
             ELSE IF currentBlock.hash # calculateHash(currentBlock) THEN "false"
             ELSE IF previousBlock = Undefined THEN "throws"
             ELSE IF currentBlock.previousHash # previousBlock.hash THEN "false"
             ELSE PoS_isChainValidFrom(ch, i + 1)

PoS_isChainValid_lenient(ch) ==
    IF PoW_isChainValid(ch) = "throws" THEN "false" ELSE PoW_isChainValid(ch)

(* PoS Blockchain.isChainValid: catch (error) { return false } *)
PoS_isChainValid(ch) ==
    IF PoS_isChainValidFrom(ch, 2) = "throws" THEN "false"
    ELSE PoS_isChainValidFrom(ch, 2)

(* getBlockchainInfo().isValid: isChainValid() inside try/catch, false    *)
(* when it throws                                                          *)
PoW_getBlockchainInfo(ch) == [isValid |-> PoW_isChainValid(ch) = "true"]

PoS_getBlockchainInfo(ch) == [isValid |-> PoS_isChainValid(ch) = "true"]

(* Chains the ledgers build: mint and reward, then a transfer and reward *)
PoW_BuiltChain ==
    LET g  == PoW_createGenesisBlock(StartTime)
        b1 == mineBlock(NewBlock(StartTime,
                  <<createMintTransaction(1, "alice", 1000, StartTime),
                    createRewardTransaction(2, "bob", miningReward, StartTime)>>,
                  g.hash), difficulty)
        b2 == mineBlock(NewBlock(MaxNow,
                  <<signTransaction(NewTransaction(3, "alice", "carol", 400,
                                                   "transfer", StartTime),
                                    PrivateKey("alice")),
                    createRewardTransaction(4, "bob", miningReward, MaxNow)>>,
                  b1.hash), difficulty)
    IN  <<g, b1, b2>>

PoS_BuiltChain ==
    LET g  == PoS_createGenesisBlock(StartTime)
        b1 == forgeBlock(NewPosBlock(1, StartTime,
                  <<createMintTransaction(1, "alice", 1000, StartTime),
                    createMintTransaction(2, "bob", miningReward, StartTime)>>,
                  g.hash, "bob"))
        b2 == forgeBlock(NewPosBlock(2, MaxNow,
                  <<signTransaction(NewTransaction(3, "alice", "carol", 400,
                                                   "transfer", StartTime),
                                    PrivateKey("alice")),
                    createMintTransaction(4, "bob", miningReward, MaxNow)>>,
                  b1.hash, "bob"))
    IN  <<g, b1, b2>>

BuiltChains(c) ==
    LET full == IF c = "pow" THEN PoW_BuiltChain ELSE PoS_BuiltChain
    IN  {SubSeq(full, 1, n) : n \in 1..Len(full)}

FieldEdits == {"amount", "from", "to"}

ChainEdits ==
    FieldEdits \cup {"none", "rehashed", "previousHash", "emptyHash", "invalidTx",
                     "json", "jsonTx", "undefined", "noIndex"}

EditTx(tx, kind) ==
    IF kind = "amount" THEN [tx EXCEPT !.amount = tx.amount + 1]
    ELSE IF kind = "from" THEN [tx EXCEPT !.from = "mallory"]
    ELSE IF kind = "to" THEN [tx EXCEPT !.to = "mallory"]
    ELSE IF kind = "invalidTx"
         THEN [tx EXCEPT !.from = "alice", !.type = "transfer", !.amount = 0]
    ELSE IF kind = "jsonTx" THEN JsonData(tx)
    ELSE tx

(* A block after an edit made outside the ledger *)
EditBlock(b, kind) ==
    LET first  == EditTx(b.transactions[1], kind)
        edited == [b EXCEPT !.transactions = <<first>> \o Tail(b.transactions)]
    IN  IF kind \in FieldEdits \cup {"invalidTx", "jsonTx"} THEN edited
        ELSE IF kind = "rehashed"
             THEN LET r == [b EXCEPT !.transactions =
                                <<EditTx(b.transactions[1], "amount")>>
                                    \o Tail(b.transactions)]
                  IN  [r EXCEPT !.hash = calculateHash(r)]
        ELSE IF kind = "previousHash" THEN [b EXCEPT !.previousHash = Hash(Undefined)]
        ELSE IF kind = "emptyHash" THEN [b EXCEPT !.hash = EmptyString]
        ELSE IF kind = "json"
             THEN JsonData([b EXCEPT !.transactions =
                               [n \in 1..Len(b.transactions) |->
                                   JsonData(b.transactions[n])]])
        ELSE IF kind = "undefined" THEN Undefined
        ELSE IF kind = "noIndex" THEN [k \in DOMAIN b \ {"index"} |-> b[k]]
        ELSE b

EditChain(ch, i, kind) == [ch EXCEPT ![i] = EditBlock(ch[i], kind)]

ChainContents(c) ==
    UNION { {EditChain(ch, i, kind) : i \in 1..Len(ch), kind \in ChainEdits} :
                ch \in BuiltChains(c) }

PoW_isChainValidCall ==
    /\ consensus = "pow"
    /\ result' = PoW_isChainValid(chain)
    /\ UNCHANGED <<consensus, chain, pendingTransactions, balances, validators,
                   autoForging, forgingInterval, timers, now, lastBlock,
                   callbackView, file>>

PoS_isChainValidCall ==
    /\ consensus = "pos"
    /\ result' = PoS_isChainValid(chain)
    /\ UNCHANGED <<consensus, chain, pendingTransactions, balances, validators,
                   autoForging, forgingInterval, timers, now, lastBlock,
                   callbackView, file>>

InitValidate ==
    /\ consensus \in {"pow", "pos"}
    /\ now = MaxNow
    /\ chain \in ChainContents(consensus)
    /\ pendingTransactions = <<>>
    /\ balances = <<>>
    /\ validators = <<>>
    /\ autoForging = FALSE
    /\ forgingInterval = NoTimer
    /\ timers = {}
    /\ lastBlock = chain[Len(chain)]
    /\ callbackView = NoView
    /\ file = NoFile
    /\ result = "ok"

NextValidate ==
    \/ PoW_isChainValidCall
    \/ PoS_isChainValidCall

SpecValidate == InitValidate /\ [][NextValidate]_vars

-----------------------------------------------------------------------------
(* Persistence of the PoW ledger by the server: blockchain.json            *)

JsonSeq(objects) == [n \in 1..Len(objects) |-> JsonData(objects[n])]

(* JSON text of blockchainData, as JSON.parse returns it *)
SerializedLedger(ch, pend, bal) ==
    [exists |-> TRUE,
     chain |-> [n \in 1..Len(ch) |->
                   JsonData([ch[n] EXCEPT !.transactions = JsonSeq(ch[n].transactions)])],
     difficulty |-> difficulty,
     pendingTransactions |-> JsonSeq(pend),
     miningReward |-> miningReward,
     balances |-> bal]

fromData_newIdentity(data, id, ts) ==
    NewTransaction(id, data.from, data.to, data.amount, data.type, ts)

(* TransactionClass.fromData; id and ts are what the constructor draws *)
fromData(data, id, ts) ==
    LET tx == NewTransaction(id, data.from, data.to, data.amount, data.type, ts)
        restored == [tx EXCEPT !.id = data.id, !.timestamp = data.timestamp,
                               !.signature = data.signature]
    IN  [restored EXCEPT !.hash = IF data.hash # EmptyString THEN data.hash
                                  ELSE TxCalculateHash(restored)]

LoadTransactions(txsData, id, ts) ==
    [n \in 1..Len(txsData) |-> fromData(txsData[n], id, ts)]

(* new Block(...) with hash and nonce restored from the file *)
LoadBlock(blockData, id, ts) ==
    LET b == NewBlock(blockData.timestamp,
                      LoadTransactions(blockData.transactions, id, ts),
                      blockData.previousHash)
    IN  [b EXCEPT !.hash = blockData.hash, !.nonce = blockData.nonce]

(* The ledger a restarted server holds after loadBlockchainData read data *)
LoadedLedger(data, id, ts) ==
    [chain |-> [n \in 1..Len(data.chain) |-> LoadBlock(data.chain[n], id, ts)],
     pendingTransactions |-> LoadTransactions(data.pendingTransactions, id, ts),
     balances |-> data.balances]

(* saveBlockchainData() of the 30 second timer *)
saveBlockchainData ==
    /\ consensus = "pow"
    /\ file' = SerializedLedger(chain, pendingTransactions, balances)
    /\ result' = "saved"
    /\ UNCHANGED <<consensus, chain, pendingTransactions, balances, validators,
                   autoForging, forgingInterval, timers, now, lastBlock,
                   callbackView>>

(* Restart of the server over an existing blockchain.json: a new           *)
(* Blockchain, then loadBlockchainData. (Without the file the restarted    *)
(* server is the newly constructed ledger.)                                *)
loadBlockchainData ==
    /\ consensus = "pow"
    /\ file.exists
    /\ LET fresh  == <<PoW_createGenesisBlock(now)>>
           loaded == LoadedLedger(file, FreshId(fresh, <<>>), now)
       IN  /\ chain' = loaded.chain
           /\ pendingTransactions' = loaded.pendingTransactions
           /\ balances' = loaded.balances
           /\ lastBlock' = getLatestBlock(loaded.chain)
    /\ result' = "loaded"
    /\ UNCHANGED <<consensus, validators, autoForging, forgingInterval, timers,
                   now, callbackView, file>>

(* saveBlockchainData() at the end of a handler: reached only when the    *)
(* ledger call did not throw                                               *)
SavedOnSuccess ==
    file' = IF result' = "ok"
            THEN SerializedLedger(chain', pendingTransactions', balances')
            ELSE file

(* Wallet.sendMoney *)
sendMoney(from, to, amount) ==
    LET g  == PoW_getBalance(balances, chain, pendingTransactions, from)
        tx == CallerTransfer(from, to, amount, TRUE)
    IN  IF InsufficientBalance(g.value, amount)
        THEN /\ result' = "insufficient"
             /\ balances' = g.balances
             /\ UNCHANGED <<chain, pendingTransactions>>
        ELSE IF ~isValid(tx)
        THEN /\ result' = "invalid"
             /\ balances' = g.balances
             /\ UNCHANGED <<chain, pendingTransactions>>
        ELSE PoW_createTransactionBody(tx)

(* POST /api/transactions *)
Server_postTransactions ==
    /\ consensus = "pow"
    /\ CanCreate
    /\ \E from \in Senders, req \in PoW_TransferRequests :
          sendMoney(from, req[1], req[2])
    /\ SavedOnSuccess
    /\ UNCHANGED <<consensus, now, lastBlock>>
    /\ PosFieldsUnchanged

(* POST /api/mint *)
Server_postMint ==
    /\ consensus = "pow"
    /\ CanCreate
    /\ \E to \in MintRecipients, amount \in MintAmounts :
          PoW_createTransactionBody(
              createMintTransaction(FreshId(chain, pendingTransactions),
                                    to, amount, now))
    /\ SavedOnSuccess
    /\ UNCHANGED <<consensus, now, lastBlock>>
    /\ PosFieldsUnchanged

(* POST /api/mine *)
Server_postMine ==
    /\ consensus = "pow"
    /\ CanCreate
    /\ \E miningRewardAddress \in Producers, t \in now..MaxNow :
          LET after == PoW_mine(miningRewardAddress, t)
          IN  /\ chain' = after.chain
              /\ balances' = after.balances
              /\ pendingTransactions' = after.pendingTransactions
              /\ lastBlock' = getLatestBlock(after.chain)
              /\ now' = t
    /\ result' = "ok"
    /\ SavedOnSuccess
    /\ UNCHANGED consensus
    /\ PosFieldsUnchanged

(* GET /api/wallets: getBalance of a wallet address, nothing saved *)
Server_getWallets == PoW_getBalanceCall

NextReload ==
    \/ Server_postTransactions
    \/ Server_postMint
    \/ Server_postMine
    \/ Server_getWallets
    \/ saveBlockchainData
    \/ loadBlockchainData

SpecReload == InitPoW /\ [][NextReload]_vars

-----------------------------------------------------------------------------
(* The PoS ledger with wallets that stake: the callers register funded     *)
(* wallets as validators and produce blocks.                               *)

Stakers == {"alice", "bob"}

(* addValidator(address, stake) for a wallet address *)
PoS_addValidatorWallet ==
    /\ consensus = "pos"
    /\ \E address \in Stakers, stake \in StakeAmounts :
          validators' = addValidator(validators, address, stake)
    /\ result' = "ok"
    /\ UNCHANGED <<consensus, chain, pendingTransactions, balances, now, lastBlock, file>>
    /\ callbackView' = NoView
    /\ TimerUnchanged

NextStake ==
    \/ PoS_createTransaction
    \/ PoS_mintTokens
    \/ PoS_addValidatorWallet
    \/ PoS_forgePendingTransactions

SpecStake == InitPoS /\ [][NextStake]_vars

-----------------------------------------------------------------------------
(* selectValidator alone, over validator maps with up to three entries     *)

SelectAddresses == {"alice", "bob", "carol"}
SelectStakes == {1000, 1500, 2000}

ValidatorMaps ==
    {<<>>}
    \cup {<<<<a, x>>>> : a \in SelectAddresses, x \in SelectStakes}
    \cup {<<<<p[1], x>>, <<p[2], y>>>> :
             p \in {q \in SelectAddresses \X SelectAddresses : q[1] # q[2]},
             x \in SelectStakes, y \in SelectStakes}
    \cup {<<<<"alice", x>>, <<"bob", y>>, <<"carol", z>>>> :
             x \in SelectStakes, y \in SelectStakes, z \in SelectStakes}

(* selectValidator() *)
PoS_selectValidatorCall ==
    /\ consensus = "pos"
    /\ \A promoted \in {AutoPromote(validators, balances)} :
          /\ validators' = promoted
          /\ \E random \in (IF promoted = <<>> THEN {0} ELSE Draws(promoted)) :
                result' = selectValidator(promoted, random)
    /\ UNCHANGED <<consensus, chain, pendingTransactions, balances, now, lastBlock,
                   callbackView, file>>
    /\ TimerUnchanged

InitSelect ==
    /\ consensus = "pos"
    /\ now = StartTime
    /\ chain = <<PoS_createGenesisBlock(StartTime)>>
    /\ pendingTransactions = <<>>
    /\ balances = <<>>
    /\ validators \in ValidatorMaps
    /\ autoForging = FALSE
    /\ forgingInterval = NoTimer
    /\ timers = {}
    /\ lastBlock = chain[1]
    /\ callbackView = NoView
    /\ file = NoFile
    /\ result = "ok"

NextSelect == PoS_selectValidatorCall

SpecSelect == InitSelect /\ [][NextSelect]_vars

-----------------------------------------------------------------------------
(* The PoW ledger with callers that hand createTransaction transfers of    *)
(* their own making: new TransactionClass(from, to, amount), the type      *)
(* left at its default 'transfer', unsigned.                               *)

TransferShapes ==
    { <<NULL, "carol", 0>>, <<NULL, "", 400>>, <<"", "carol", 400>>,
      <<"alice", "", 400>>, <<"alice", "carol", 400>> }

PoW_createTransactionOfShape ==
    /\ consensus = "pow"
    /\ CanCreate
    /\ \E shape \in TransferShapes :
          PoW_createTransactionBody(
              CallerTransfer(shape[1], shape[2], shape[3], FALSE))
    /\ UNCHANGED <<consensus, now, lastBlock, file>>
    /\ PosFieldsUnchanged

NextShapes ==
    \/ PoW_createTransactionOfShape
    \/ PoW_mintTokens
    \/ PoW_minePendingTransactions

SpecShapes == InitPoW /\ [][NextShapes]_vars

-----------------------------------------------------------------------------
(* The PoS ledger under auto-forging that is started and never stopped:    *)
(* the interval timer keeps firing. Callers submit only while the bound    *)
(* leaves room for the reward of the block that will take the queue.       *)

RoomForReward ==
    Cardinality(TxIds(getAllTransactions(chain)) \cup TxIds(pendingTransactions))
        < MaxTx - 1

Live_createTransaction == RoomForReward /\ PoS_createTransaction

Live_mintTokens == RoomForReward /\ PoS_mintTokens

NextLive ==
    \/ Live_createTransaction
    \/ Live_mintTokens
    \/ PoS_addValidator
    \/ PoS_removeValidator
    \/ startAutoForging
    \/ ForgingTick

(* ENABLED <<ForgingTick>>_vars written out: a timer is alive, the queue    *)
(* is not empty, and the forgePendingTransactions() of the tick either     *)
(* appends a block or returns null where the last call had another outcome *)
TickCanAct ==
    /\ consensus = "pos"
    /\ timers # {}
    /\ Len(pendingTransactions) > 0
    /\ IF AutoPromote(validators, balances) = <<>>
       THEN result # "null" \/ callbackView # NoView
       ELSE CanCreate

(* WF_vars(ForgingTick): setInterval keeps firing the callback *)
TimerFairness == []<>(~TickCanAct) \/ []<><<ForgingTick>>_vars

SpecLive == InitPoS /\ [][NextLive]_vars /\ TimerFairness

-----------------------------------------------------------------------------
(* Vocabulary of the properties *)

AllTransactions == getAllTransactions(chain)

(* Balance derived from the finalized blocks alone *)
ConfirmedBalance(address) == FoldTxs(AllTransactions, address)

(* What getBalance(address) returns in the current state *)
GetBalanceValue(address) ==
    IF consensus = "pow"
    THEN PoW_getBalance(balances, chain, pendingTransactions, address).value
    ELSE PoS_getBalance(balances, chain, address).value

RECURSIVE SumAmounts(_)
SumAmounts(txs) ==
    IF txs = <<>> THEN 0 ELSE Head(txs).amount + SumAmounts(Tail(txs))

(* Total amount of the pending transfers sent from address *)
PendingOut(address) ==
    SumAmounts(SelectSeq(pendingTransactions,
                         LAMBDA t : t.type = "transfer" /\ t.from = address))

RECURSIVE SumBalances(_)
SumBalances(addresses) ==
    IF addresses = {} THEN 0
    ELSE LET a == CHOOSE x \in addresses : TRUE
         IN  GetBalanceValue(a) + SumBalances(addresses \ {a})

AppearedAddresses ==
    ({AllTransactions[i].from : i \in 1..Len(AllTransactions)}
        \cup {AllTransactions[i].to : i \in 1..Len(AllTransactions)}) \ {NULL}

SystemIssued(t) == t.type \in {"mint", "reward"}

IsPrefix(s, t) == Len(s) <= Len(t) /\ SubSeq(t, 1, Len(s)) = s

NoDuplicateIds ==
    LET all == AllTransactions \o pendingTransactions
    IN  Cardinality(TxIds(all)) = Len(all)

TxIs(t, type, from, to, amount) ==
    t.type = type /\ t.from = from /\ t.to = to /\ t.amount = amount

ResetStep == consensus = "pos" /\ reset

CreateStep(tx) ==
    \/ consensus = "pow" /\ PoW_createTransactionBody(tx)
    \/ consensus = "pos" /\ PoS_createTransactionBody(tx)

ProductionStep ==
    \/ PoW_minePendingTransactions
    \/ PoS_forgePendingTransactions

-----------------------------------------------------------------------------
(* C1: chain linkage. In both ledgers every block at index i >= 1 carries  *)
(* as previousHash the hash of the block before it, after any sequence of  *)
(* createTransaction / mintTokens / block-production calls.                *)
C1_ChainLinkage ==
    \A i \in 2..Len(chain) : chain[i].previousHash = chain[i - 1].hash

C1_Witness == Len(chain) >= 3

(* C2: end-to-end scenario on the PoW ledger. After mintTokens(alice,1000) *)
(* and minePendingTransactions(bob): height 2, alice 1000, bob 100; after  *)
(* alice->carol 400 and a second minePendingTransactions(bob): alice 600,  *)
(* carol 400, bob 200; whatever getBalance calls were made in between.     *)
C2_FirstBlock ==
    /\ Len(chain) >= 2
    /\ Len(chain[2].transactions) = 2
    /\ TxIs(chain[2].transactions[1], "mint", NULL, "alice", 1000)
    /\ TxIs(chain[2].transactions[2], "reward", NULL, "bob", miningReward)

C2_SecondBlock ==
    /\ Len(chain) = 3
    /\ C2_FirstBlock
    /\ Len(chain[3].transactions) = 2
    /\ TxIs(chain[3].transactions[1], "transfer", "alice", "carol", 400)
    /\ TxIs(chain[3].transactions[2], "reward", NULL, "bob", miningReward)

C2_EndToEnd ==
    /\ (C2_FirstBlock /\ Len(chain) = 2 /\ pendingTransactions = <<>>)
          => /\ GetBalanceValue("alice") = 1000
             /\ GetBalanceValue("bob") = miningReward
    /\ (C2_SecondBlock /\ pendingTransactions = <<>>)
          => /\ GetBalanceValue("alice") = 600
             /\ GetBalanceValue("carol") = 400
             /\ GetBalanceValue("bob") = 2 * miningReward

(* C3: the balance index of the PoS ledger is a faithful memo of the       *)
(* chain: every entry balances[addr] equals the fold of the finalized      *)
(* transactions onto addr.                                                 *)
C3_BalanceIndexFaithful ==
    \A i \in 1..Len(balances) :
        balances[i][2] = ConfirmedBalance(balances[i][1])

(* C4: balance conservation on the PoS ledger: the getBalance values of    *)
(* all addresses that appear in finalized transactions add up to the       *)
(* amounts of the finalized mint / reward transactions.                    *)
C4_BalanceConservation ==
    SumBalances(AppearedAddresses)
        = SumAmounts(SelectSeq(AllTransactions, SystemIssued))

C6_NoDoubleSpend ==
    \A a \in Senders :
        /\ PendingOut(a) <= ConfirmedBalance(a)
        /\ ConfirmedBalance(a) >= 0

C8_MutualExclusion ==
    /\ \A i, j \in 1..Len(chain) :
          i # j => /\ TxIds(chain[i].transactions)
                         \cap TxIds(chain[j].transactions) = {}
                   /\ chain[i].previousHash # chain[j].previousHash
    /\ TxIds(pendingTransactions) \cap TxIds(AllTransactions) = {}

C8_Witness ==
    /\ Len(chain) = 3
    /\ timers # {}
    /\ chain[2].validator = "bob"
    /\ chain[3].validator = "alice"
    /\ pendingTransactions # <<>>

(* C9: no producer available. forgePendingTransactions() without a         *)
(* producer address, with no validator registered and no balance entry of  *)
(* at least 1000, returns null and leaves chain, pendingTransactions,      *)
(* balances and validators unchanged.                                      *)
C9_NoProducerAvailable ==
    [][ ( /\ consensus = "pos"
          /\ Len(validators) = 0
          /\ \A i \in 1..Len(balances) : balances[i][2] < MinimumStake
          /\ \E t \in now..MaxNow : PoS_forge(NULL, t) )
        => /\ result' = "null"
           /\ UNCHANGED <<chain, pendingTransactions, balances, validators>> ]_vars

C9_Witness ==
    /\ consensus = "pos"
    /\ result = "null"
    /\ pendingTransactions # <<>>

(* C10: nothing to do. A block-production call made while                  *)
(* pendingTransactions is empty appends no block and changes no balance.   *)
C10_NothingToDo ==
    [][ (pendingTransactions = <<>> /\ ProductionStep)
          => UNCHANGED <<chain, balances>> ]_vars


(* C11: PoW difficulty property. When mineBlock(d) returns, the hash of    *)
(* the block starts with at least d zero hexadecimal characters and equals *)
(* calculateHash() of the block's final fields; for d = 0 the block is     *)
(* returned as it was, nonce and hash untouched.                           *)
C11_DifficultyProperty ==
    [][ \A d \in Difficulties :
          MineStep(d) => /\ HexPrefix(lastBlock'.hash, d) = 0
                         /\ lastBlock'.hash = calculateHash(lastBlock')
                         /\ (d = 0 => lastBlock' = lastBlock) ]_vars

C11_Witness ==
    /\ lastBlock \notin ConstructedBlocks
    /\ lastBlock.nonce > 0
    /\ HexPrefix(lastBlock.hash, difficulty) = 0
    /\ lastBlock.hash = calculateHash(lastBlock)


(* C12: block hash invariant. In every reachable state every block of the  *)
(* chain, genesis included, has hash = calculateHash() over its current    *)
(* fields, and no operation changes a block once it is in the chain        *)
(* (reset() replaces the whole ledger).                                    *)
C12_BlockHashInvariant ==
    /\ [](\A i \in 1..Len(chain) : chain[i].hash = calculateHash(chain[i]))
    /\ [][ ~ResetStep =>
             \A i \in 1..Len(chain) : i <= Len(chain') /\ chain'[i] = chain[i] ]_vars

C12_Witness ==
    /\ Len(chain) >= 3
    /\ chain[2].nonce > 0
    /\ pendingTransactions # <<>>


(* C13: isChainValid never throws. For every chain content, blocks that    *)
(* are malformed or plain data without methods included, isChainValid      *)
(* returns a boolean; an internal error is reported as false.              *)
C13_NeverThrows == result # "throws"

(* The conditions of strict validation, block by block *)
StrictlyValid(ch) ==
    \A i \in 2..Len(ch) :
        /\ ch[i] # Undefined
        /\ ch[i - 1] # Undefined
        /\ HasMethods(ch[i])
        /\ isValidStructure(ch[i])
        /\ \A n \in 1..Len(ch[i].transactions) :
              HasMethods(ch[i].transactions[n]) /\ isValid(ch[i].transactions[n])
        /\ ch[i].hash = calculateHash(ch[i])
        /\ ch[i].previousHash = ch[i - 1].hash

FieldEdited(ch) ==
    \E i \in 2..Len(PoS_BuiltChain), kind \in FieldEdits :
        \E n \in i..Len(PoS_BuiltChain) :
            ch = EditChain(SubSeq(PoS_BuiltChain, 1, n), i, kind)

(* C14: strict chain validation of the PoS ledger. isChainValid returns    *)
(* true exactly when every block at index >= 1 has a valid structure, only *)
(* valid transactions, hash = calculateHash() and previousHash equal to    *)
(* the hash of the block before; a changed amount, sender or recipient in  *)
(* such a block, with the block hash left as it was, gives false.          *)
C14_StrictValidation ==
    (consensus = "pos" /\ result # "ok") =>
        /\ result \in {"true", "false"}
        /\ (result = "true") <=> StrictlyValid(chain)
        /\ FieldEdited(chain) => result = "false"

C14_Witness ==
    /\ consensus = "pos"
    /\ result = "false"
    /\ FieldEdited(chain)
    /\ Len(chain) = 3
    /\ chain[2].hash # calculateHash(chain[2])


(* C15: signed transfers only. A transfer whose signature is null is       *)
(* rejected by isValid, so every transfer in pendingTransactions or in a   *)
(* block of the chain carries a signature.                                 *)
C15_SignedTransfersOnly ==
    LET all == AllTransactions \o pendingTransactions
    IN  \A n \in 1..Len(all) :
            all[n].type = "transfer" =>
                /\ all[n].signature # NullSignature
                /\ isValid(all[n])


(* C16: mintTokens precondition. mintTokens(to, amount) admits the mint    *)
(* transaction only when amount > 0: no mint transaction with a            *)
(* non-positive amount is pending or finalized.                            *)
C16_MintPositive ==
    LET all == AllTransactions \o pendingTransactions
    IN  \A n \in 1..Len(all) : all[n].type = "mint" => all[n].amount > 0


(* C17: the confirmed balance of the PoW ledger is never conflated with    *)
(* pending effects. While no block is produced, admitting a transaction to *)
(* pendingTransactions does not change the value getBalance returns for    *)
(* any address.                                                            *)
C17_PendingNotConflated ==
    [][ chain' = chain =>
          \A a \in QueryAddresses \cup Producers \cup {"carol"} :
              GetBalanceValue(a)' = GetBalanceValue(a) ]_vars


(* C18: round-trip serialization. Saving the ledger and reloading it into  *)
(* a fresh ledger yields the same getAllTransactions() sequence, the same  *)
(* pending queue and the same getBalance value for every address, and the  *)
(* reloaded chain passes isChainValid whenever the saved one did.          *)
C18_RoundTrip ==
    [][ file' # file =>
          \A l \in {LoadedLedger(file', FreshId(<<PoW_createGenesisBlock(now')>>, <<>>),
                                  now')} :
              /\ getAllTransactions(l.chain) = getAllTransactions(chain')
              /\ l.pendingTransactions = pendingTransactions'
              /\ \A a \in QueryAddresses \cup Producers \cup {"carol"} :
                    PoW_getBalance(l.balances, l.chain, l.pendingTransactions, a).value
                        = PoW_getBalance(balances', chain', pendingTransactions', a).value
              /\ (PoW_isChainValid(chain') = "true"
                     => PoW_isChainValid(l.chain) = "true") ]_vars

C18_Witness ==
    /\ result = "loaded"
    /\ Len(chain) >= 2
    /\ pendingTransactions # <<>>
    /\ balances # <<>>
    /\ chain = LoadedLedger(file, 0, now).chain


(* C19: append-only chain. For createTransaction, mintTokens, getBalance,  *)
(* validator management and block production the chain before the call is *)
(* a prefix of the chain after it; only a block production extends the     *)
(* chain, by exactly one block; chain[0] stays the genesis block with      *)
(* previousHash "0" and the height never decreases.                        *)
C19_AppendOnly ==
    [][ ~ResetStep =>
          /\ IsPrefix(chain, chain')
          /\ (chain' # chain =>
                /\ Len(chain') = Len(chain) + 1
                /\ (ProductionStep \/ ForgingTick))
          /\ chain'[1] = chain[1]
          /\ chain'[1].previousHash = GenesisPreviousHash ]_vars

C19_Witness ==
    /\ Len(chain) = 3
    /\ consensus = "pos"
    /\ Len(validators) > 0
    /\ Len(balances) > 1
    /\ pendingTransactions # <<>>


(* C20: minimum-stake invariant of the PoS ledger. Every entry of the      *)
(* validators map has stake >= 1000; addValidator with stake < 1000        *)
(* creates no entry; updateValidatorStake with a new stake < 1000 removes  *)
(* the entry.                                                              *)
C20_MinimumStake ==
    /\ [](\A i \in 1..Len(validators) : validators[i][2] >= MinimumStake)
    /\ [][ \A address \in ValidatorAddresses, stake \in StakeAmounts :
             stake < MinimumStake =>
               /\ (PoS_addValidator
                      /\ validators' = addValidator(validators, address, stake))
                     => (MapHas(validators', address) <=> MapHas(validators, address))
               /\ (PoS_updateValidatorStake
                      /\ validators' = updateValidatorStake(validators, address, stake))
                     => ~MapHas(validators', address) ]_vars
    /\ [][ \A v \in Producers \cup Senders :
             (consensus = "pos" /\ Len(chain') > Len(chain)
                 /\ getLatestBlock(chain').validator = v
                 /\ PoS_getBalance(balances', chain', v).value < MinimumStake)
               => ~MapHas(validators', v) ]_vars

C20_Witness ==
    /\ MapHas(validators, "alice")
    /\ MapGet(validators, "alice") > MinimumStake
    /\ ~MapHas(validators, "bob")
    /\ \E i \in 2..Len(chain) : chain[i].validator = "bob"


(* Number of transactions in the blocks before position i *)
RECURSIVE TxsBefore(_, _)
TxsBefore(ch, i) ==
    IF i <= 1 THEN 0 ELSE Len(ch[i - 1].transactions) + TxsBefore(ch, i - 1)

StakeUpdateBase ==
    IF validators = <<>> /\ validators' # <<>>
    THEN AutoPromote(validators, balances)
    ELSE validators

(* C23: after a PoS production by v, a registered v holds the stake        *)
(* getBalance(v) if that is at least MinimumStake and is removed otherwise;*)
(* an unregistered v is not added; every other validator keeps its entry   *)
(* and its stake.                                                          *)
C23_StakeFollowsProducerBalance ==
    [][ (consensus = "pos" /\ Len(chain') > Len(chain)) =>
          LET v == chain'[Len(chain')].validator
              b == MapGet(balances', v)
          IN  \A base \in {StakeUpdateBase} :
                /\ MapHas(base, v) /\ b >= MinimumStake
                      => MapHas(validators', v) /\ MapGet(validators', v) = b
                /\ MapHas(base, v) /\ b < MinimumStake => ~MapHas(validators', v)
                /\ ~MapHas(base, v) => ~MapHas(validators', v)
                /\ \A i \in 1..Len(base) :
                      base[i][1] # v =>
                         /\ MapHas(validators', base[i][1])
                         /\ MapGet(validators', base[i][1]) = base[i][2]
                /\ \A i \in 1..Len(validators') :
                      validators'[i][1] # v => MapHas(base, validators'[i][1]) ]_vars

C23_Witness ==
    /\ callbackView.called
    /\ lastBlock.validator = "alice"
    /\ MapHas(validators, "bob")
    /\ MapHas(validators, "alice")
    /\ MapGet(validators, "alice") = MapGet(balances, "alice")
    /\ MapGet(validators, "alice") > MinimumStake

(* C24: when a PoS block takes the balance of a registered validator from  *)
(* at least MinimumStake to below it, the next selectValidator call cannot *)
(* return that validator, whatever its draw.                               *)
C24_DemotionFollowsBalance ==
    [][ (consensus = "pos" /\ Len(chain') > Len(chain)) =>
          \A base \in {StakeUpdateBase} :
             \A i \in 1..Len(base) :
                LET v == base[i][1]
                IN  (/\ ConfirmedBalance(v) >= MinimumStake
                     /\ ConfirmedBalance(v)' < MinimumStake)
                    => \A promoted \in {AutoPromote(validators', balances')} :
                          \A r \in Draws(promoted) :
                             selectValidator(promoted, r) # v ]_vars

(* C25: a selectValidator call on the PoS ledger. Over an empty validator  *)
(* map it registers exactly the addresses of the balance index holding at  *)
(* least MinimumStake, each with its balance as stake; over a non-empty    *)
(* map it registers nobody. It returns null exactly when the map is still  *)
(* empty afterwards and a key of the map otherwise. A production that      *)
(* returns null found nobody to register, and a producer nobody named was  *)
(* a key of the map.                                                       *)
C25_PromotionAndMembership ==
    /\ [](consensus = "pos" =>
            \A promoted \in {AutoPromote(validators, balances)} :
               /\ validators = <<>> =>
                     /\ \A i \in 1..Len(balances) :
                           balances[i][2] >= MinimumStake
                              <=> MapHas(promoted, balances[i][1])
                     /\ \A j \in 1..Len(promoted) :
                           /\ MapHas(balances, promoted[j][1])
                           /\ promoted[j][2] = MapGet(balances, promoted[j][1])
               /\ validators # <<>> => promoted = validators
               /\ promoted = <<>> => selectValidator(promoted, 0) = NULL
               /\ promoted # <<>> =>
                     \A r \in Draws(promoted) :
                        /\ selectValidator(promoted, r) # NULL
                        /\ MapHas(promoted, selectValidator(promoted, r)))
    /\ [][ consensus = "pos" =>
             /\ (result' = "null" /\ result # "null")
                   => AutoPromote(validators, balances) = <<>> /\ validators' = <<>>
             /\ (Len(chain') > Len(chain)
                   /\ chain'[Len(chain')].validator \notin Producers)
                   => MapHas(AutoPromote(validators, balances),
                             chain'[Len(chain')].validator) ]_vars

C25_Witness ==
    /\ callbackView.called
    /\ lastBlock.validator = "alice"
    /\ \A i \in 1..(Len(chain) - 1) : chain[i].validator # "alice"
    /\ MapHas(balances, "bob")
    /\ Len(validators) = 1
    /\ MapHas(validators, "alice")

(* The validator whose range of draws holds r when the ranges are laid out *)
(* in insertion order, each as wide as its stake and closed at its lower   *)
(* end only: [acc, acc + stake).                                           *)
RECURSIVE RangeOwner(_, _, _)
RangeOwner(entries, r, acc) ==
    IF entries = <<>> THEN NULL
    ELSE IF acc <= r /\ r < acc + Head(entries)[2]
    THEN Head(entries)[1]
    ELSE RangeOwner(Tail(entries), r, acc + Head(entries)[2])

(* C26: a selectValidator call over a non-empty map returns, for every     *)
(* draw r with 0 <= r < totalStake, the validator whose range [acc, acc +  *)
(* stake) holds r, and so never falls through to the fallback.             *)
C26_StakeWeightedWalk ==
    [][ (PoS_selectValidatorCall /\ validators # <<>>) =>
          \A r \in Draws(validators) :
             /\ RangeOwner(validators, r, 0) # NULL
             /\ selectValidator(validators, r) = RangeOwner(validators, r, 0) ]_vars

(* C27: the block a production appends holds the queued transactions in    *)
(* submission order followed by one system-issued transaction of           *)
(* miningReward to the producer, and getBalance(producer) grows by         *)
(* miningReward plus the producer's net transfers in the block.            *)
C27_BlockContentsAndReward ==
    [][ Len(chain') > Len(chain) =>
          LET b      == chain'[Len(chain')]
              n      == Len(b.transactions)
              reward == b.transactions[n]
              producer == reward.to
          IN  /\ Len(chain') = Len(chain) + 1
              /\ n = Len(pendingTransactions) + 1
              /\ SubSeq(b.transactions, 1, n - 1) = pendingTransactions
              /\ SystemIssued(reward)
              /\ reward.amount = miningReward
              /\ (consensus = "pos" => producer = b.validator)
              /\ (consensus = "pow" => producer \in Producers)
              /\ (IF consensus = "pow"
                   THEN PoW_getBalance(balances', chain', pendingTransactions',
                                       producer).value
                   ELSE PoS_getBalance(balances', chain', producer).value)
                    - GetBalanceValue(producer)
                    = miningReward + FoldTxs(pendingTransactions, producer) ]_vars

(* C28: the PoW balance cache is unobservable. A minePendingTransactions   *)
(* call ends with the same getBalance for every address as the same call   *)
(* in the execution that differs by one getBalance(q) interleaved right    *)
(* before it.                                                              *)
C28_CacheTransparency ==
    [][ (consensus = "pow" /\ Len(chain') > Len(chain)) =>
          \A q \in QueryAddresses :
             LET queried == PoW_getBalance(balances, chain,
                                           pendingTransactions, q).balances
                 block   == chain'[Len(chain')]
                 twin    == PoW_updateBalances(queried, chain', block.transactions,
                                               block.transactions)
             IN  \A a \in QueryAddresses \cup Producers :
                    PoW_getBalance(twin, chain', <<>>, a).value
                       = PoW_getBalance(balances', chain',
                                        pendingTransactions', a).value ]_vars

(* C29: the hash of a signed transaction covers its signature. Every       *)
(* signed transaction of the ledger has a hash different from the hash of  *)
(* the unsigned transaction with the same id, from, to, amount, type and   *)
(* timestamp.                                                              *)
C29_HashCoversSignature ==
    \A txs \in {AllTransactions \o pendingTransactions} :
       \A i \in 1..Len(txs) :
          txs[i].signature # NullSignature =>
             txs[i].hash # NewTransaction(txs[i].id, txs[i].from, txs[i].to,
                                          txs[i].amount, txs[i].type,
                                          txs[i].timestamp).hash

(* C30: malformed transfers never enter the pool. Every transaction of     *)
(* type transfer in pendingTransactions or in a block has a positive       *)
(* amount and a non-empty sender and recipient, and a createTransaction    *)
(* call that raised the validation error left the queue as it was.         *)
C30_NoMalformedTransfer ==
    /\ [](\A txs \in {AllTransactions \o pendingTransactions} :
             \A i \in 1..Len(txs) :
                txs[i].type = "transfer" =>
                   /\ txs[i].amount > 0
                   /\ Truthy(txs[i].from)
                   /\ Truthy(txs[i].to))
    /\ [][ result' = "invalid" => UNCHANGED pendingTransactions ]_vars

(* C31: a tick of the auto-forging timer over an empty queue changes       *)
(* nothing; over a non-empty queue it is one forgePendingTransactions():   *)
(* either no producer is found and nothing changes, or one block is        *)
(* appended that holds the queue and the reward (never the reward alone),  *)
(* produced by a key of the validator map as selectValidator leaves it.    *)
C31_TickGuard ==
    [][ (consensus = "pos" /\ timers # {} /\ ForgingTick) =>
          IF pendingTransactions = <<>>
          THEN UNCHANGED <<chain, balances, validators, pendingTransactions>>
          ELSE \/ /\ result' = "null"
                  /\ UNCHANGED <<chain, balances, validators, pendingTransactions>>
               \/ /\ Len(chain') = Len(chain) + 1
                  /\ Len(chain'[Len(chain')].transactions)
                        = Len(pendingTransactions) + 1
                  /\ pendingTransactions' = <<>>
                  /\ MapHas(AutoPromote(validators, balances),
                            chain'[Len(chain')].validator) ]_vars

C31_Witness ==
    /\ timers # {}
    /\ autoForging
    /\ callbackView.called
    /\ lastBlock.validator = "alice"
    /\ Len(lastBlock.transactions) >= 2

(* C32: mineBlock(d) changes only nonce and hash of the block, and on a    *)
(* freshly constructed block (nonce 0, hash = calculateHash()) it stops at *)
(* the smallest nonce whose hash has d leading zero hexadecimal digits.    *)
C32_MiningFrameAndMinimality ==
    [][ \A d \in Difficulties :
          MineStep(d) =>
             /\ [lastBlock' EXCEPT !.nonce = lastBlock.nonce,
                                   !.hash = lastBlock.hash] = lastBlock
             /\ (lastBlock.nonce = 0 /\ lastBlock.hash = calculateHash(lastBlock))
                   => /\ HexPrefix(calculateHash(
                             [lastBlock EXCEPT !.nonce = lastBlock'.nonce]), d) = 0
                      /\ \A m \in 0..(lastBlock'.nonce - 1) :
                            HexPrefix(calculateHash(
                                [lastBlock EXCEPT !.nonce = m]), d) # 0 ]_vars

C32_Witness ==
    /\ lastBlock.nonce >= 2
    /\ Len(lastBlock.transactions) = 2
    /\ lastBlock.hash = calculateHash(lastBlock)
    /\ HexPrefix(lastBlock.hash, 1) = 0

(* C33: the chain a ledger produced itself is valid. In every reachable    *)
(* state of either ledger isChainValid() returns true and                  *)
(* getBlockchainInfo().isValid is true.                                    *)
C33_SelfProducedChainValid ==
    /\ consensus = "pow" => /\ PoW_isChainValid(chain) = "true"
                            /\ PoW_getBlockchainInfo(chain).isValid
    /\ consensus = "pos" => /\ PoS_isChainValid(chain) = "true"
                            /\ PoS_getBlockchainInfo(chain).isValid

C33_Witness ==
    /\ Len(chain) = 3
    /\ \E i \in 1..Len(chain[3].transactions) :
          chain[3].transactions[i].type = "transfer"

(* C34: the producer a PoS block records was, when the block was produced, *)
(* a key of the validator map (as selectValidator leaves it) with a stake  *)
(* of at least MinimumStake.                                               *)
C34_ProducerIsValidator ==
    [][ (consensus = "pos" /\ Len(chain') > Len(chain)) =>
          \A registered \in {AutoPromote(validators, balances)} :
             /\ MapHas(registered, chain'[Len(chain')].validator)
             /\ MapGet(registered, chain'[Len(chain')].validator) >= MinimumStake ]_vars

(* selectValidator would find a producer: a validator is registered or the *)
(* balance index holds an address with at least MinimumStake               *)
ProducerResolvable == AutoPromote(validators, balances) # <<>>

(* C35: under auto-forging that is never stopped and a timer that keeps    *)
(* firing, every queued transaction is eventually in a block of the chain  *)
(* unless at some point no producer can be resolved; and no step loses a   *)
(* queued transaction: it stays queued or is in the chain.                 *)
C35_EventualInclusion ==
    /\ \A id \in 1..MaxTx :
          (autoForging /\ id \in TxIds(pendingTransactions))
             ~> (id \in TxIds(AllTransactions) \/ ~ProducerResolvable)
    /\ [][ \A id \in TxIds(pendingTransactions) :
              id \in TxIds(pendingTransactions') \cup TxIds(AllTransactions') ]_vars

C35_Witness ==
    /\ autoForging
    /\ Len(chain) >= 3
    /\ \E i \in 1..Len(lastBlock.transactions) :
          lastBlock.transactions[i].type = "transfer"
    /\ pendingTransactions = <<>>

(* C36: a single auto-forging timer. autoForging holds exactly when the    *)
(* ledger keeps a timer handle, and then that timer is the only one alive; *)
(* when it does not hold no timer is alive, so no tick can produce a       *)
(* block. startAutoForging while running and stopAutoForging while stopped *)
(* change nothing of the ledger, and stopAutoForging and reset leave no    *)
(* timer behind.                                                           *)
C36_SingleTimer ==
    /\ [](consensus = "pos" =>
            /\ autoForging <=> forgingInterval # NoTimer
            /\ timers = (IF autoForging THEN {forgingInterval} ELSE {})
            /\ Cardinality(timers) <= 1)
    /\ [][ consensus = "pos" =>
             /\ (autoForging /\ startAutoForging)
                   => UNCHANGED <<autoForging, forgingInterval, timers, chain,
                                  pendingTransactions, balances, validators>>
             /\ (~autoForging /\ stopAutoForging)
                   => UNCHANGED <<autoForging, forgingInterval, timers, chain,
                                  pendingTransactions, balances, validators>>
             /\ (stopAutoForging \/ reset)
                   => ~autoForging' /\ timers' = {} /\ forgingInterval' = NoTimer
             /\ (timers = {} /\ Len(chain') > Len(chain)) => ~ForgingTick ]_vars

C36_Witness ==
    /\ autoForging
    /\ forgingInterval # NoTimer
    /\ Cardinality(timers) = 1
    /\ Len(chain) >= 2
    /\ pendingTransactions # <<>>
====
